---- MODULE Spec2Model ----
(***************************************************************************)
(* Model of the privacy-preserving aggregation core of test_pi:            *)
(*   core/data_encoder.py  MusicDataEncoder  (normalisation, one-hot,      *)
(*                          record encode/decode, feature vector)          *)
(*   core/he_engine.py     HEEngine          (encrypt/decrypt, arithmetic) *)
(*   gui/main_window.py    MusicRevenueAnalyzerGUI (request handlers) and  *)
(*                          the aggregation store they call                *)
(*                                                                         *)
(* Python floats are modelled as exact rationals <<n, d>> in lowest terms  *)
(* with d > 0, so "equal within floating tolerance" becomes "equal".       *)
(* Python lists are sequences; a 0-based Python index i is position i+1.   *)
(* An optional value is None (the empty sequence) or Some(x) = <<x>>.      *)
(* The external cryptosystem (piheaan) is modelled as exact: a ciphertext  *)
(* is the message it encrypts, a sequence of complex slots [re, im].       *)
(***************************************************************************)
EXTENDS Integers, Sequences, FiniteSets, TLC

VARIABLES
    nField, nValue, nNorm, nDenorm,                 \* normalize_value / denormalize_value calls
    lKind, lLabel, lVec, lOut,                      \* encode_genre / encode_period / decode calls
    music_data, edits, encoded_data, decoded_data,  \* record-level encode / decode
    feature_vector,
    heap, origin, he_call,                          \* HEEngine ciphertexts and last call
    calculator, init_pc,                            \* GUI: self.calculator and its init_task
    accumulators, metadata_table, locks, folded,    \* aggregation store
    threads, submitted, query, shown                \* worker threads, last query, GUI output

normVars  == <<nField, nValue, nNorm, nDenorm>>
labelVars == <<lKind, lLabel, lVec, lOut>>
encVars   == <<music_data, edits, encoded_data, decoded_data, feature_vector>>
heVars    == <<heap, origin, he_call>>
storeVars == <<calculator, init_pc, accumulators, metadata_table, locks, folded,
               threads, submitted, query, shown>>
vars      == <<normVars, labelVars, encVars, heVars, storeVars>>

None == <<>>
Some(x) == <<x>>

-----------------------------------------------------------------------------
(* Bounds of the model *)

\* test values of a ranged field are min + (max-min)*k/GridDen, k in -1..GridDen+1
GridDen == 2
\* components of the vectors handed to the decoders are k/MaxLevel, k in 0..MaxLevel
MaxLevel == 1
\* number of keys a caller changes in a record before encoding it
MaxEdits == 1
\* datetime.now() returns one of 0..MaxClock
MaxClock == 1
\* HEEngine(log_slots): the engine has 2^LogSlots slots
LogSlots == 1
\* number of ciphertexts alive at once
MaxCtxts == 2
\* number of ciphertexts a caller keeps from homomorphic operations
MaxOps == 1
\* length of the lists handed to calculate_encrypted_sum / _average
MaxList == 2
\* number of records the requests hand to the aggregation store
MaxRecords == 3
\* number of records one generate_sample_data request synthesizes
SampleCount == 2

-----------------------------------------------------------------------------
(* Exact rational arithmetic standing for Python's float arithmetic *)

Abs(n) == IF n < 0 THEN -n ELSE n

RECURSIVE GCD(_, _)
GCD(a, b) == IF b = 0 THEN a ELSE GCD(b, a % b)

Rat(n, d) ==
    LET g == GCD(Abs(n), Abs(d))
        s == IF d < 0 THEN -1 ELSE 1
    IN  <<s * (n \div g), s * (d \div g)>>

R(n) == <<n, 1>>
Zero == R(0)
One  == R(1)

RLess(a, b) == a[1] * b[2] < b[1] * a[2]
RLeq(a, b)  == a[1] * b[2] <= b[1] * a[2]

RAdd(a, b) ==
    LET g == GCD(a[2], b[2])
    IN  Rat(a[1] * (b[2] \div g) + b[1] * (a[2] \div g), (a[2] \div g) * b[2])

RNeg(a)    == <<-a[1], a[2]>>
RSub(a, b) == RAdd(a, RNeg(b))

RMul(a, b) ==
    LET g1 == GCD(Abs(a[1]), b[2])
        g2 == GCD(Abs(b[1]), a[2])
    IN  Rat((a[1] \div g1) * (b[1] \div g2), (a[2] \div g2) * (b[2] \div g1))

\* b # 0
RDiv(a, b) == RMul(a, Rat(b[2], b[1]))

\* Python's builtin min(a, b) / max(a, b): the first argument unless the second beats it
PyMin(a, b) == IF RLess(b, a) THEN b ELSE a
PyMax(a, b) == IF RLess(a, b) THEN b ELSE a

-----------------------------------------------------------------------------
(* MusicDataEncoder: mapping tables *)

genre_mapping ==
    [g \in {"Pop", "Hip-Hop", "Rock", "Electronic", "R&B", "Country", "Jazz", "Classical"} |->
        CASE g = "Pop" -> 0 [] g = "Hip-Hop" -> 1 [] g = "Rock" -> 2 [] g = "Electronic" -> 3
          [] g = "R&B" -> 4 [] g = "Country" -> 5 [] g = "Jazz" -> 6 [] g = "Classical" -> 7]

period_mapping ==
    [p \in {"2024-Q1", "2024-Q2", "2024-Q3", "2024-Q4", "2023-Q1", "2023-Q2", "2023-Q3", "2023-Q4"} |->
        CASE p = "2024-Q1" -> 0 [] p = "2024-Q2" -> 1 [] p = "2024-Q3" -> 2 [] p = "2024-Q4" -> 3
          [] p = "2023-Q1" -> 4 [] p = "2023-Q2" -> 5 [] p = "2023-Q3" -> 6 [] p = "2023-Q4" -> 7]

normalization_ranges ==
    [revenue          |-> <<R(0), R(100000000)>>,
     song_count       |-> <<R(1), R(50)>>,
     danceability     |-> <<R(0), R(1)>>,
     energy           |-> <<R(0), R(1)>>,
     valence          |-> <<R(0), R(1)>>,
     tempo            |-> <<R(60), R(200)>>,
     acousticness     |-> <<R(0), R(1)>>,
     instrumentalness |-> <<R(0), R(1)>>,
     liveness         |-> <<R(0), R(1)>>,
     speechiness      |-> <<R(0), R(1)>>,
     loudness         |-> <<R(-60), R(0)>>,
     duration_ms      |-> <<R(30000), R(600000)>>]

-----------------------------------------------------------------------------
(* MusicDataEncoder.normalize_value / denormalize_value *)

\* normalize_value without the clipping line
normalize_value_noclip(value, field_name) ==
    IF field_name \notin DOMAIN normalization_ranges THEN value
    ELSE LET min_val == normalization_ranges[field_name][1]
             max_val == normalization_ranges[field_name][2]
         IN  RDiv(RSub(value, min_val), RSub(max_val, min_val))

normalize_value(value, field_name) ==
    IF field_name \notin DOMAIN normalization_ranges THEN value
    ELSE LET min_val == normalization_ranges[field_name][1]
             max_val == normalization_ranges[field_name][2]
             clipped == PyMax(min_val, PyMin(max_val, value))
         IN  RDiv(RSub(clipped, min_val), RSub(max_val, min_val))

\* denormalize_value scaling by max_val instead of (max_val - min_val)
denormalize_value_maxscale(normalized_value, field_name) ==
    IF field_name \notin DOMAIN normalization_ranges THEN normalized_value
    ELSE LET min_val == normalization_ranges[field_name][1]
             max_val == normalization_ranges[field_name][2]
         IN  RAdd(RMul(normalized_value, max_val), min_val)

denormalize_value(normalized_value, field_name) ==
    IF field_name \notin DOMAIN normalization_ranges THEN normalized_value
    ELSE LET min_val == normalization_ranges[field_name][1]
             max_val == normalization_ranges[field_name][2]
         IN  RAdd(RMul(normalized_value, RSub(max_val, min_val)), min_val)

-----------------------------------------------------------------------------
(* Specification SpecNorm: normalize_value then denormalize_value applied   *)
(* to one field name and one value                                          *)

\* an undeclared field name, as a caller of normalize_value may pass
UndeclaredFields == {"popularity"}

FieldNames == DOMAIN normalization_ranges \cup UndeclaredFields

\* values of the repository's own examples (data_encoder.py test record) and -100
SampleValues(f) ==
    CASE f = "revenue"     -> {R(5000000), R(-100)}
      [] f = "tempo"       -> {R(120)}
      [] f = "danceability" -> {Rat(4, 5)}
      [] f = "loudness"    -> {R(-5)}
      [] f = "popularity"  -> {R(75), R(-3), Rat(7, 2)}
      [] OTHER             -> {}

GridValues(f) ==
    IF f \notin DOMAIN normalization_ranges THEN {}
    ELSE LET lo == normalization_ranges[f][1]
             hi == normalization_ranges[f][2]
         IN  { RAdd(lo, RMul(RSub(hi, lo), Rat(k, GridDen))) : k \in -1 .. GridDen + 1 }

TestValues(f) == GridValues(f) \cup SampleValues(f)

NormIdle  == nField = "revenue" /\ nValue = Zero /\ nNorm = None /\ nDenorm = None
LabelIdle == lKind = "genre" /\ lLabel = None /\ lVec = None /\ lOut = None
EncIdle   == /\ music_data = <<>> /\ edits = 0
             /\ encoded_data = None /\ decoded_data = None /\ feature_vector = None
HEIdle    == heap = <<>> /\ origin = <<>> /\ he_call = None
Threads   == {"t1", "t2"}
IdleThread == [pc |-> "idle", task |-> "", queue |-> <<>>, staged |-> None, ret |-> None]
StoreIdle == /\ calculator = None /\ init_pc = "idle"
             /\ accumulators = <<>> /\ metadata_table = <<>> /\ locks = {} /\ folded = <<>>
             /\ threads = [t \in Threads |-> IdleThread]
             /\ submitted = 0 /\ query = None /\ shown = None

InitNorm ==
    /\ nField \in FieldNames
    /\ nValue \in TestValues(nField)
    /\ nNorm = None /\ nDenorm = None
    /\ LabelIdle /\ EncIdle /\ HEIdle /\ StoreIdle

NormalizeValue ==
    /\ nNorm = None
    /\ nNorm' = Some(normalize_value(nValue, nField))
    /\ UNCHANGED <<nField, nValue, nDenorm, labelVars, encVars, heVars, storeVars>>

DenormalizeValue ==
    /\ nNorm # None /\ nDenorm = None
    /\ nDenorm' = Some(denormalize_value(nNorm[1], nField))
    /\ UNCHANGED <<nField, nValue, nNorm, labelVars, encVars, heVars, storeVars>>

NextNorm == NormalizeValue \/ DenormalizeValue

SpecNorm == InitNorm /\ [][NextNorm]_vars

Declared(f) == f \in DOMAIN normalization_ranges
MinOf(f) == normalization_ranges[f][1]
MaxOf(f) == normalization_ranges[f][2]

\* the value clipped to the field's [min, max], stated by cases
Clamped(v, f) == IF RLess(v, MinOf(f)) THEN MinOf(f) ELSE IF RLess(MaxOf(f), v) THEN MaxOf(f) ELSE v

\* C1: for a field with a declared range, normalize(value, field) is
\* (clip(value, min, max) - min)/(max - min) and lies in [0,1]; for a field
\* name with no declared range it is the value unchanged.
C1_NormalizeClipsAndScales ==
    nNorm # None =>
        IF Declared(nField)
        THEN /\ RAdd(RMul(nNorm[1], RSub(MaxOf(nField), MinOf(nField))), MinOf(nField))
                    = Clamped(nValue, nField)
             /\ RLeq(Zero, nNorm[1]) /\ RLeq(nNorm[1], One)
        ELSE nNorm[1] = nValue

C1_Witness ==
    \/ nField = "tempo" /\ nValue = R(120) /\ nNorm = Some(Rat(3, 7))
    \/ nField = "popularity" /\ nValue = Rat(7, 2) /\ nNorm = Some(Rat(7, 2))

\* C2: denormalize(normalize(v, field), field) is v when v is inside the
\* field's [min,max], min when v < min and max when v > max.
C2_RoundTripOrBoundary ==
    (nDenorm # None /\ Declared(nField)) =>
        /\ RLess(nValue, MinOf(nField)) => nDenorm[1] = MinOf(nField)
        /\ RLess(MaxOf(nField), nValue) => nDenorm[1] = MaxOf(nField)
        /\ (RLeq(MinOf(nField), nValue) /\ RLeq(nValue, MaxOf(nField))) => nDenorm[1] = nValue

C2_Witness ==
    /\ nField = "revenue" /\ nValue = R(-100) /\ nDenorm = Some(R(0))

-----------------------------------------------------------------------------
(* MusicDataEncoder: one-hot encoding and argmax decoding of labels *)

\* list.index(x): 0-based position of the first element equal to x
PyIndex(list, x) ==
    (CHOOSE i \in 1 .. Len(list) : list[i] = x /\ \A j \in 1 .. i - 1 : list[j] # x) - 1

\* max(list) of a non-empty list: the running maximum, kept unless a later element beats it
RECURSIVE PyListMaxFrom(_, _, _)
PyListMaxFrom(list, i, best) ==
    IF i > Len(list) THEN best
    ELSE PyListMaxFrom(list, i + 1, PyMax(best, list[i]))

PyListMax(list) == PyListMaxFrom(list, 2, list[1])

\* encode_genre writing the 1.0 one position too low (0-based index used as a 1-based one)
encode_genre_shifted(genre) ==
    [i \in 1 .. Cardinality(DOMAIN genre_mapping) |->
        IF genre \in DOMAIN genre_mapping /\ genre_mapping[genre] = i THEN One ELSE Zero]

encode_genre(genre) ==
    [i \in 1 .. Cardinality(DOMAIN genre_mapping) |->
        IF genre \in DOMAIN genre_mapping /\ genre_mapping[genre] = i - 1 THEN One ELSE Zero]

\* decode_genre taking the last position of the maximum instead of the first
decode_genre_last(one_hot_vector) ==
    LET m == PyListMax(one_hot_vector)
        max_index == (CHOOSE i \in 1 .. Len(one_hot_vector) :
                        /\ one_hot_vector[i] = m
                        /\ \A j \in i + 1 .. Len(one_hot_vector) : one_hot_vector[j] # m) - 1
    IN  IF \E g \in DOMAIN genre_mapping : genre_mapping[g] = max_index
        THEN CHOOSE g \in DOMAIN genre_mapping : genre_mapping[g] = max_index
        ELSE "Unknown"

\* a vector without a positive component has no label
decode_genre_unknown_on_zero(one_hot_vector) ==
    LET max_index == PyIndex(one_hot_vector, PyListMax(one_hot_vector))
    IN  IF RLeq(PyListMax(one_hot_vector), Zero) THEN "Unknown"
        ELSE IF \E g \in DOMAIN genre_mapping : genre_mapping[g] = max_index
        THEN CHOOSE g \in DOMAIN genre_mapping : genre_mapping[g] = max_index
        ELSE "Unknown"

decode_genre(one_hot_vector) ==
    LET max_index == PyIndex(one_hot_vector, PyListMax(one_hot_vector))
    IN  IF \E g \in DOMAIN genre_mapping : genre_mapping[g] = max_index
        THEN CHOOSE g \in DOMAIN genre_mapping : genre_mapping[g] = max_index
        ELSE "Unknown"

encode_period(period) ==
    [i \in 1 .. Cardinality(DOMAIN period_mapping) |->
        IF period \in DOMAIN period_mapping /\ period_mapping[period] = i - 1 THEN One ELSE Zero]

\* the period branch of decode_music_data: Some(label) when the loop finds the
\* index of the maximum in the table, None when it sets no 'period' key
decode_period(period_vector) ==
    LET max_index == PyIndex(period_vector, PyListMax(period_vector))
    IN  IF \E p \in DOMAIN period_mapping : period_mapping[p] = max_index
        THEN Some(CHOOSE p \in DOMAIN period_mapping : period_mapping[p] = max_index)
        ELSE None

-----------------------------------------------------------------------------
(* Specification SpecLabel: the label encoders applied to known and unknown *)
(* labels, the decoders applied to their output and to arbitrary vectors    *)

GenreLabels  == DOMAIN genre_mapping \cup {"Metal", ""}
PeriodLabels == DOMAIN period_mapping \cup {"2025-Q1", ""}

Levels == { Rat(k, MaxLevel) : k \in 0 .. MaxLevel }

Table(kind) == IF kind = "genre" THEN genre_mapping ELSE period_mapping

InitLabel == NormIdle /\ LabelIdle /\ EncIdle /\ HEIdle /\ StoreIdle

EncodeGenre(genre) ==
    /\ lVec = None
    /\ lKind' = "genre" /\ lLabel' = Some(genre)
    /\ lVec' = Some(encode_genre(genre)) /\ lOut' = None
    /\ UNCHANGED <<normVars, encVars, heVars, storeVars>>

EncodePeriod(period) ==
    /\ lVec = None
    /\ lKind' = "period" /\ lLabel' = Some(period)
    /\ lVec' = Some(encode_period(period)) /\ lOut' = None
    /\ UNCHANGED <<normVars, encVars, heVars, storeVars>>

\* a caller hands the decoders a vector that no encoder produced
SupplyVector ==
    /\ lVec = None
    /\ \E kind \in {"genre", "period"} :
         \E vector \in [1 .. Cardinality(DOMAIN Table(kind)) -> Levels] :
            /\ lKind' = kind /\ lLabel' = None
            /\ lVec' = Some(vector) /\ lOut' = None
    /\ UNCHANGED <<normVars, encVars, heVars, storeVars>>

DecodeGenre ==
    /\ lKind = "genre" /\ lVec # None /\ lOut = None
    /\ lOut' = Some(Some(decode_genre(lVec[1])))
    /\ UNCHANGED <<lKind, lLabel, lVec, normVars, encVars, heVars, storeVars>>

DecodePeriod ==
    /\ lKind = "period" /\ lVec # None /\ lOut = None
    /\ lOut' = Some(decode_period(lVec[1]))
    /\ UNCHANGED <<lKind, lLabel, lVec, normVars, encVars, heVars, storeVars>>

NextLabel ==
    \/ \E g \in GenreLabels : EncodeGenre(g)
    \/ \E p \in PeriodLabels : EncodePeriod(p)
    \/ SupplyVector
    \/ DecodeGenre
    \/ DecodePeriod

SpecLabel == InitLabel /\ [][NextLabel]_vars

\* positions (1-based) at which a vector attains its maximum
TiedAtMax(v) == { i \in 1 .. Len(v) : \A j \in 1 .. Len(v) : RLeq(v[j], v[i]) }
Lowest(S) == CHOOSE i \in S : \A j \in S : i <= j

\* C3: decoding the encoding of a table label gives the label back (genre
\* and period alike), and a vector whose maximum is attained at several
\* indices decodes to the label with the lowest of those indices.
C3_DecodeInvertsEncodeLowestTie ==
    lOut # None =>
        /\ lOut[1] # None
        /\ lOut[1][1] \in DOMAIN Table(lKind)
        /\ Table(lKind)[lOut[1][1]] = Lowest(TiedAtMax(lVec[1])) - 1
        /\ (lLabel # None /\ lLabel[1] \in DOMAIN Table(lKind)) => lOut[1][1] = lLabel[1]

C3_Witness ==
    /\ lKind = "genre"
    /\ lVec = Some(<<Zero, One, Zero, One, Zero, Zero, Zero, One>>)
    /\ lOut = Some(Some("Hip-Hop"))

\* C4: the label encoders return a vector as long as the table, with one
\* component 1.0 at the label's table index and 0.0 elsewhere for a known
\* label, and all 0.0 for a label that is not in the table.
C4_OneHotOrAllZero ==
    (lLabel # None /\ lVec # None) =>
        LET v == lVec[1]
            t == Table(lKind)
        IN  /\ Len(v) = Cardinality(DOMAIN t)
            /\ \A i \in 1 .. Len(v) : v[i] \in {Zero, One}
            /\ IF lLabel[1] \in DOMAIN t
               THEN { i \in 1 .. Len(v) : v[i] = One } = { t[lLabel[1]] + 1 }
               ELSE { i \in 1 .. Len(v) : v[i] = One } = {}

C4_Witness ==
    /\ lKind = "period" /\ lLabel = Some("2025-Q1")
    /\ lVec = Some([i \in 1 .. 8 |-> Zero])

\* the index (0-based) decode_genre looks up
MaxIndex(v) == PyIndex(v, PyListMax(v))

\* C25: decode_genre returns a label of the genre table for every vector of
\* length 8; it returns "Unknown" only for a vector whose maximum sits at
\* index 8 or more (as it does once a larger ninth component is appended);
\* and the all-zero encoding of a label that is not in the table decodes to
\* the first label, 'Pop'.
C25_DecodeGenreTableLabelOrUnknown ==
    (lKind = "genre" /\ lOut # None)
       => LET v == lVec[1]
              longer == Append(v, R(2))
          IN  /\ Len(v) = 8 /\ MaxIndex(v) < 8
              /\ lOut[1] # None /\ lOut[1][1] \in DOMAIN genre_mapping
              /\ genre_mapping[lOut[1][1]] = MaxIndex(v)
              /\ MaxIndex(longer) = 8 /\ decode_genre(longer) = "Unknown"
              /\ decode_genre(Append(v, Zero)) = lOut[1][1]
              /\ (lLabel # None /\ lLabel[1] \notin DOMAIN genre_mapping)
                    => /\ v = [i \in 1 .. 8 |-> Zero]
                       /\ lOut[1][1] = "Pop" /\ genre_mapping["Pop"] = 0

C25_Witness ==
    /\ lKind = "genre" /\ lLabel = Some("Metal")
    /\ lVec = Some([i \in 1 .. 8 |-> Zero])
    /\ lOut = Some(Some("Pop"))

-----------------------------------------------------------------------------
(* MusicDataEncoder: record-level encoding, decoding and the feature vector *)

numeric_fields ==
    <<"revenue", "song_count", "danceability", "energy", "valence", "tempo",
      "acousticness", "instrumentalness", "liveness", "speechiness", "loudness", "duration_ms">>

feature_order ==
    <<"danceability", "energy", "valence", "tempo", "acousticness", "instrumentalness",
      "liveness", "speechiness", "loudness", "duration_ms">>

Range(seq) == { seq[i] : i \in 1 .. Len(seq) }

\* dict.get(key, default)
Get(dict, key, default) == IF key \in DOMAIN dict THEN dict[key] ELSE default

\* now: the value datetime.now() returns during the call
encode_music_data(music, now) ==
    LET numeric == { f \in Range(numeric_fields) : f \in DOMAIN music }
        labels  == { k \in {"genre", "period"} : k \in DOMAIN music }
    IN  [k \in numeric \cup labels \cup {"metadata"} |->
            IF k \in numeric THEN <<normalize_value(music[k], k)>>
            ELSE IF k = "genre" THEN encode_genre(music["genre"])
            ELSE IF k = "period" THEN encode_period(music["period"])
            ELSE [artist_id       |-> Get(music, "artist_id", ""),
                  upload_time     |-> now,
                  original_genre  |-> Get(music, "genre", ""),
                  original_period |-> Get(music, "period", "")]]

\* decode_music_data returning the normalized values without denormalizing them
decode_music_data_raw(encoded) ==
    LET numeric == { f \in Range(numeric_fields) : f \in DOMAIN encoded /\ Len(encoded[f]) > 0 }
        genre   == IF "genre" \in DOMAIN encoded THEN {"genre"} ELSE {}
        found   == IF "period" \in DOMAIN encoded THEN decode_period(encoded["period"]) ELSE None
        period  == IF found # None THEN {"period"} ELSE {}
        meta    == IF "metadata" \in DOMAIN encoded THEN encoded["metadata"] ELSE <<>>
    IN  [k \in numeric \cup genre \cup period \cup DOMAIN meta |->
            IF k \in DOMAIN meta THEN meta[k]
            ELSE IF k \in numeric THEN encoded[k][1]
            ELSE IF k = "genre" THEN decode_genre(encoded["genre"])
            ELSE found[1]]

decode_music_data(encoded) ==
    LET numeric == { f \in Range(numeric_fields) : f \in DOMAIN encoded /\ Len(encoded[f]) > 0 }
        genre   == IF "genre" \in DOMAIN encoded THEN {"genre"} ELSE {}
        found   == IF "period" \in DOMAIN encoded THEN decode_period(encoded["period"]) ELSE None
        period  == IF found # None THEN {"period"} ELSE {}
        meta    == IF "metadata" \in DOMAIN encoded THEN encoded["metadata"] ELSE <<>>
    IN  [k \in numeric \cup genre \cup period \cup DOMAIN meta |->
            IF k \in DOMAIN meta THEN meta[k]
            ELSE IF k \in numeric THEN denormalize_value(encoded[k][1], k)
            ELSE IF k = "genre" THEN decode_genre(encoded["genre"])
            ELSE found[1]]

\* the loop over feature_order: extend with the encoded list, or append the default 0.0
RECURSIVE ExtendFeatures(_, _, _)
ExtendFeatures(encoded, i, acc) ==
    IF i > Len(feature_order) THEN acc
    ELSE ExtendFeatures(encoded, i + 1,
            IF feature_order[i] \in DOMAIN encoded
            THEN acc \o encoded[feature_order[i]]
            ELSE Append(acc, Zero))

\* the same loop without the else branch: an absent feature adds nothing
RECURSIVE ExtendFeaturesSkip(_, _, _)
ExtendFeaturesSkip(encoded, i, acc) ==
    IF i > Len(feature_order) THEN acc
    ELSE ExtendFeaturesSkip(encoded, i + 1,
            IF feature_order[i] \in DOMAIN encoded
            THEN acc \o encoded[feature_order[i]]
            ELSE acc)

ZeroBlock(table) == [i \in 1 .. Cardinality(DOMAIN table) |-> Zero]

\* create_feature_vector without the defaults for what the record lacks
create_feature_vector_skip(music, now) ==
    LET encoded == encode_music_data(music, now)
    IN  ExtendFeaturesSkip(encoded, 1, <<>>)
            \o (IF "genre" \in DOMAIN encoded THEN encoded["genre"] ELSE <<>>)
            \o (IF "period" \in DOMAIN encoded THEN encoded["period"] ELSE <<>>)

\* create_feature_vector appending the period block before the genre block
create_feature_vector_swapped(music, now) ==
    LET encoded == encode_music_data(music, now)
    IN  ExtendFeatures(encoded, 1, <<>>)
            \o (IF "period" \in DOMAIN encoded THEN encoded["period"] ELSE ZeroBlock(period_mapping))
            \o (IF "genre" \in DOMAIN encoded THEN encoded["genre"] ELSE ZeroBlock(genre_mapping))

create_feature_vector(music, now) ==
    LET encoded == encode_music_data(music, now)
    IN  ExtendFeatures(encoded, 1, <<>>)
            \o (IF "genre" \in DOMAIN encoded THEN encoded["genre"] ELSE ZeroBlock(genre_mapping))
            \o (IF "period" \in DOMAIN encoded THEN encoded["period"] ELSE ZeroBlock(period_mapping))

-----------------------------------------------------------------------------
(* Specification SpecEnc: a caller builds a record (the module's test       *)
(* record or the empty one, with up to MaxEdits keys set or removed) and    *)
(* either encodes it and decodes the encoding, or builds its feature vector *)

test_music_data ==
    [artist_id        |-> "artist_001",
     genre            |-> "Pop",
     period           |-> "2024-Q1",
     revenue          |-> R(5000000),
     song_count       |-> R(3),
     danceability     |-> Rat(4, 5),
     energy           |-> Rat(7, 10),
     valence          |-> Rat(9, 10),
     tempo            |-> R(120),
     acousticness     |-> Rat(1, 10),
     instrumentalness |-> R(0),
     liveness         |-> Rat(1, 5),
     speechiness      |-> Rat(1, 20),
     loudness         |-> R(-5),
     duration_ms      |-> R(210000)]

RecordKeys == Range(numeric_fields) \cup {"genre", "period", "artist_id"}

RecordValues(k) ==
    CASE k = "genre"     -> GenreLabels
      [] k = "period"    -> PeriodLabels
      [] k = "artist_id" -> {"artist_002", ""}
      [] OTHER           -> TestValues(k)

InitEnc ==
    /\ NormIdle /\ LabelIdle /\ HEIdle /\ StoreIdle
    /\ music_data \in {<<>>, test_music_data}
    /\ edits = 0
    /\ encoded_data = None /\ decoded_data = None /\ feature_vector = None

Untouched == encoded_data = None /\ feature_vector = None

\* music_data[key] = value
SetField ==
    /\ Untouched /\ edits < MaxEdits
    /\ \E key \in RecordKeys : \E value \in RecordValues(key) :
         music_data' = [k \in DOMAIN music_data \cup {key} |->
                            IF k = key THEN value ELSE music_data[k]]
    /\ edits' = edits + 1
    /\ UNCHANGED <<encoded_data, decoded_data, feature_vector, normVars, labelVars, heVars, storeVars>>

\* del music_data[key]
DelField ==
    /\ Untouched /\ edits < MaxEdits
    /\ \E key \in DOMAIN music_data :
         music_data' = [k \in DOMAIN music_data \ {key} |-> music_data[k]]
    /\ edits' = edits + 1
    /\ UNCHANGED <<encoded_data, decoded_data, feature_vector, normVars, labelVars, heVars, storeVars>>

EncodeMusicData ==
    /\ Untouched
    /\ \E now \in 0 .. MaxClock : encoded_data' = Some(encode_music_data(music_data, now))
    /\ UNCHANGED <<music_data, edits, decoded_data, feature_vector, normVars, labelVars, heVars, storeVars>>

DecodeMusicData ==
    /\ encoded_data # None /\ decoded_data = None
    /\ decoded_data' = Some(decode_music_data(encoded_data[1]))
    /\ UNCHANGED <<music_data, edits, encoded_data, feature_vector, normVars, labelVars, heVars, storeVars>>

CreateFeatureVector ==
    /\ Untouched
    /\ \E now \in 0 .. MaxClock : feature_vector' = Some(create_feature_vector(music_data, now))
    /\ UNCHANGED <<music_data, edits, encoded_data, decoded_data, normVars, labelVars, heVars, storeVars>>

NextEnc == SetField \/ DelField \/ EncodeMusicData \/ DecodeMusicData \/ CreateFeatureVector

SpecEnc == InitEnc /\ [][NextEnc]_vars
NumGenres  == Cardinality(DOMAIN genre_mapping)
NumPeriods == Cardinality(DOMAIN period_mapping)

\* C5, as stated: the feature vector of every record has length 18.
C5_LengthIs18 ==
    feature_vector # None => Len(feature_vector[1]) = 18

\* C5, amended: the feature vector of every record has length 26, that is
\* 10 scalars + 8 categories + 8 periods, whichever keys the record has.
C5_LengthIs26 ==
    feature_vector # None =>
        /\ Len(feature_vector[1]) = Len(feature_order) + NumGenres + NumPeriods
        /\ Len(feature_vector[1]) = 26

C5_Witness ==
    /\ feature_vector # None
    /\ "genre" \notin DOMAIN music_data
    /\ "tempo" \in DOMAIN music_data

\* C6: position i of the feature vector holds the normalized value of the
\* i-th schema field when the record has it and 0.0 when it has not, the
\* next 8 positions the one-hot category and the last 8 the one-hot period
\* (all zero when absent), and every component lies in [0,1].
C6_SchemaOrderAndUnitRange ==
    feature_vector # None =>
        LET fv == feature_vector[1]
            n  == Len(feature_order)
        IN  /\ \A i \in 1 .. n :
                 LET f == feature_order[i]
                 IN  IF f \in DOMAIN music_data
                     THEN RAdd(RMul(fv[i], RSub(MaxOf(f), MinOf(f))), MinOf(f))
                              = Clamped(music_data[f], f)
                     ELSE fv[i] = Zero
            /\ \A j \in 1 .. NumGenres :
                 fv[n + j] = IF /\ "genre" \in DOMAIN music_data
                                /\ music_data["genre"] \in DOMAIN genre_mapping
                                /\ genre_mapping[music_data["genre"]] = j - 1
                             THEN One ELSE Zero
            /\ \A j \in 1 .. NumPeriods :
                 fv[n + NumGenres + j] =
                             IF /\ "period" \in DOMAIN music_data
                                /\ music_data["period"] \in DOMAIN period_mapping
                                /\ period_mapping[music_data["period"]] = j - 1
                             THEN One ELSE Zero
            /\ \A i \in 1 .. Len(fv) : RLeq(Zero, fv[i]) /\ RLeq(fv[i], One)

C6_Witness ==
    /\ feature_vector # None
    /\ "tempo" \in DOMAIN music_data /\ RLess(R(200), music_data["tempo"])
    /\ feature_vector[1][4] = One
    /\ "genre" \in DOMAIN music_data /\ music_data["genre"] = "Pop"
    /\ feature_vector[1][11] = One

\* what "decode recovers x" says of a record and its decoding
Recovers(x, decoded, metadata) ==
    /\ \A f \in Range(numeric_fields) \cap DOMAIN x :
         f \in DOMAIN decoded /\ decoded[f] = x[f]
    /\ \A k \in {"genre", "period"} \cap DOMAIN x :
         k \in DOMAIN decoded /\ decoded[k] = x[k]
    /\ \A k \in DOMAIN metadata :
         k \in DOMAIN decoded /\ decoded[k] = metadata[k]

\* every schema numeric field of x within its declared range, its labels in the tables
InRangeRecord(x) ==
    /\ \A f \in Range(numeric_fields) \cap DOMAIN x :
         RLeq(MinOf(f), x[f]) /\ RLeq(x[f], MaxOf(f))
    /\ "genre" \in DOMAIN x => x["genre"] \in DOMAIN genre_mapping
    /\ "period" \in DOMAIN x => x["period"] \in DOMAIN period_mapping

\* C7, as stated: for every record x, decode(encode(x)) has the numeric
\* fields, the category and the period of x, and the metadata verbatim.
C7_DecodeRecoversEveryRecord ==
    decoded_data # None =>
        Recovers(music_data, decoded_data[1], encoded_data[1]["metadata"])

\* C7, amended: the same for every record whose schema numeric fields lie
\* within their declared ranges and whose category and period labels are in
\* the tables.
C7_DecodeRecoversInRangeRecord ==
    (decoded_data # None /\ InRangeRecord(music_data)) =>
        Recovers(music_data, decoded_data[1], encoded_data[1]["metadata"])

C7_Witness ==
    /\ decoded_data # None
    /\ music_data = test_music_data
    /\ decoded_data[1]["tempo"] = R(120)
    /\ decoded_data[1]["upload_time"] = encoded_data[1]["metadata"]["upload_time"]

-----------------------------------------------------------------------------
(* HEEngine: encrypt_data and decrypt_data over the external cryptosystem *)

RECURSIVE Pow2(_)
Pow2(n) == IF n = 0 THEN 1 ELSE 2 * Pow2(n - 1)

\* self.num_slots = 2 ** log_slots
num_slots == Pow2(LogSlots)

\* complex(value): the value as real part, imaginary part 0
Complex(value) == [re |-> value, im |-> Zero]

\* encryptor.encrypt / decryptor.decrypt of the library, taken as exact:
\* the ciphertext stands for the message it holds
LibEncrypt(message) == message
LibDecrypt(ciphertext) == ciphertext

\* encrypt_data rejecting a vector that exactly fills the slots (>= for >)
encrypt_data_strict(data) ==
    IF Len(data) >= num_slots
    THEN [raised |-> "ValueError", ctxt |-> <<>>]
    ELSE LET padded_data == data \o [i \in 1 .. num_slots - Len(data) |-> Zero]
             message == [i \in 1 .. num_slots |-> Complex(padded_data[i])]
         IN  [raised |-> "", ctxt |-> LibEncrypt(message)]

encrypt_data(data) ==
    IF Len(data) > num_slots
    THEN [raised |-> "ValueError", ctxt |-> <<>>]
    ELSE LET padded_data == data \o [i \in 1 .. num_slots - Len(data) |-> Zero]
             message == [i \in 1 .. num_slots |-> Complex(padded_data[i])]
         IN  [raised |-> "", ctxt |-> LibEncrypt(message)]

\* size is None or Some(n); "size if size else self.num_slots" takes None and 0 alike
decrypt_data(ciphertext, size) ==
    LET message == LibDecrypt(ciphertext)
        actual_size == IF size # None /\ size[1] # 0 THEN size[1] ELSE num_slots
    IN  [i \in 1 .. actual_size |-> message[i].re]

-----------------------------------------------------------------------------
(* Specification SpecHE: a caller encrypts vectors and decrypts ciphertexts *)
(* it holds. heap is the ciphertexts alive, origin[i] the call that made    *)
(* heap[i], he_call the last call with its arguments and its outcome.       *)

\* vectors like the repository's test data [0.1, 0.2, 0.3, ...], scaled
HEBases == {1, 2, -3}
HEVector(base, len) == [i \in 1 .. len |-> Rat(base * i, 10)]
HEVectors == { HEVector(b, n) : b \in HEBases, n \in 0 .. num_slots + 1 }

Sizes == {None} \cup { Some(n) : n \in 0 .. num_slots }

InitHE == NormIdle /\ LabelIdle /\ EncIdle /\ HEIdle /\ StoreIdle

EncryptData ==
    /\ Len(heap) < MaxCtxts
    /\ \E data \in HEVectors :
         LET r == encrypt_data(data)
         IN  /\ heap' = IF r.raised = "" THEN Append(heap, r.ctxt) ELSE heap
             /\ origin' = IF r.raised = ""
                          THEN Append(origin, [op |-> "encrypt_data", data |-> data])
                          ELSE origin
             /\ he_call' = Some([op |-> "encrypt_data", data |-> data, ctxt |-> 0,
                                 size |-> None, nheap |-> Len(heap), raised |-> r.raised,
                                 ret_ctxt |-> IF r.raised = "" THEN Len(heap) + 1 ELSE 0,
                                 ret_list |-> <<>>])
    /\ UNCHANGED <<normVars, labelVars, encVars, storeVars>>

DecryptData ==
    /\ \E c \in 1 .. Len(heap) : \E size \in Sizes :
         he_call' = Some([op |-> "decrypt_data", data |-> <<>>, ctxt |-> c,
                          size |-> size, nheap |-> Len(heap), raised |-> "",
                          ret_ctxt |-> 0,
                          ret_list |-> decrypt_data(heap[c], size)])
    /\ UNCHANGED <<heap, origin, normVars, labelVars, encVars, storeVars>>

NextHE == EncryptData \/ DecryptData

SpecHE == InitHE /\ [][NextHE]_vars

LastCallIs(op) == he_call # None /\ he_call[1].op = op

\* C8: encrypt fails, producing no ciphertext, exactly when the vector is
\* longer than the slot capacity; otherwise the new ciphertext holds the
\* vector in slots 0..len-1 and zero in every remaining slot.
C8_EncryptCapacityAndPadding ==
    LastCallIs("encrypt_data") =>
        LET c == he_call[1]
        IN  /\ (c.raised = "ValueError") <=> (Len(c.data) > num_slots)
            /\ c.raised # "" => (c.ret_ctxt = 0 /\ Len(heap) = c.nheap)
            /\ c.raised = "" =>
                 /\ Len(heap) = c.nheap + 1 /\ c.ret_ctxt = Len(heap)
                 /\ Len(heap[c.ret_ctxt]) = num_slots
                 /\ \A i \in 1 .. num_slots :
                      heap[c.ret_ctxt][i] =
                          IF i <= Len(c.data) THEN [re |-> c.data[i], im |-> Zero]
                          ELSE [re |-> Zero, im |-> Zero]

C8_Witness ==
    /\ LastCallIs("encrypt_data")
    /\ he_call[1].data = <<Rat(1, 10)>> /\ he_call[1].raised = ""
    /\ heap[he_call[1].ret_ctxt][num_slots] = [re |-> Zero, im |-> Zero]

\* C9: decrypt(ciphertext, count) returns exactly count values, the real
\* parts of slots 0..count-1, for every count from 0 to the slot capacity.
C9_DecryptReturnsCountValues ==
    (LastCallIs("decrypt_data") /\ he_call[1].size # None) =>
        LET c == he_call[1]
        IN  /\ Len(c.ret_list) = c.size[1]
            /\ \A i \in 1 .. Len(c.ret_list) : c.ret_list[i] = heap[c.ctxt][i].re

\* C10: for a vector v no longer than the slot capacity,
\* decrypt(encrypt(v), len(v)) has the length and the values of v.
C10_DecryptInvertsEncrypt ==
    LastCallIs("decrypt_data") =>
        LET c == he_call[1]
            v == origin[c.ctxt].data
        IN  (origin[c.ctxt].op = "encrypt_data" /\ c.size = Some(Len(v))) => c.ret_list = v

-----------------------------------------------------------------------------
(* HEEngine: homomorphic arithmetic. A ciphertext is an object of the heap  *)
(* and is named by its position; an operation takes the heap and returns    *)
(* [heap, ret, raised]: the heap after the call, the position of the        *)
(* ciphertext it returns (0 when it raises) and the exception ("" if none). *)

CZero == [re |-> Zero, im |-> Zero]
CAdd(x, y) == [re |-> RAdd(x.re, y.re), im |-> RAdd(x.im, y.im)]
CMul(x, y) == [re |-> RSub(RMul(x.re, y.re), RMul(x.im, y.im)),
               im |-> RAdd(RMul(x.re, y.im), RMul(x.im, y.re))]

\* heaan.Ciphertext(self.context): a fresh ciphertext object, last on the heap
NewCiphertext(h) == Append(h, [i \in 1 .. num_slots |-> CZero])

\* evaluator.add / mult / mult_by_const / add_const of the library, taken as
\* exact and slot-wise: they write the object at position out and nothing else
LibAdd(h, a, b, out) == [h EXCEPT ![out] = [i \in 1 .. num_slots |-> CAdd(h[a][i], h[b][i])]]
LibMult(h, a, b, out) == [h EXCEPT ![out] = [i \in 1 .. num_slots |-> CMul(h[a][i], h[b][i])]]
LibMultByConst(h, a, k, out) == [h EXCEPT ![out] = [i \in 1 .. num_slots |-> CMul(h[a][i], k)]]
LibAddConst(h, a, k, out) == [h EXCEPT ![out] = [i \in 1 .. num_slots |-> CAdd(h[a][i], k)]]

Returned(h, ret) == [heap |-> h, ret |-> ret, raised |-> ""]
Raised(h, exc)   == [heap |-> h, ret |-> 0, raised |-> exc]

\* add_encrypted accumulating into its first argument instead of a fresh result
add_encrypted_inplace(h, ctxt1, ctxt2) ==
    Returned(LibAdd(h, ctxt1, ctxt2, ctxt1), ctxt1)

\* add_encrypted calling evaluator.mult (the body of multiply_encrypted)
add_encrypted_mult(h, ctxt1, ctxt2) ==
    LET h1 == NewCiphertext(h)
    IN  Returned(LibMult(h1, ctxt1, ctxt2, Len(h1)), Len(h1))

\* a combination that is not commutative
add_encrypted_sub(h, ctxt1, ctxt2) ==
    LET h1 == NewCiphertext(h)
    IN  Returned([h1 EXCEPT ![Len(h1)] =
                     [i \in 1 .. num_slots |->
                        [re |-> RSub(h[ctxt1][i].re, h[ctxt2][i].re),
                         im |-> RSub(h[ctxt1][i].im, h[ctxt2][i].im)]]],
                 Len(h1))

add_encrypted(h, ctxt1, ctxt2) ==
    LET h1 == NewCiphertext(h)
    IN  Returned(LibAdd(h1, ctxt1, ctxt2, Len(h1)), Len(h1))

multiply_encrypted(h, ctxt1, ctxt2) ==
    LET h1 == NewCiphertext(h)
    IN  Returned(LibMult(h1, ctxt1, ctxt2, Len(h1)), Len(h1))

multiply_by_constant(h, ctxt, constant) ==
    LET h1 == NewCiphertext(h)
    IN  Returned(LibMultByConst(h1, ctxt, Complex(constant), Len(h1)), Len(h1))

add_constant(h, ctxt, constant) ==
    LET h1 == NewCiphertext(h)
    IN  Returned(LibAddConst(h1, ctxt, Complex(constant), Len(h1)), Len(h1))

\* the loop "for i in range(1, len(encrypted_list))" of calculate_encrypted_sum
RECURSIVE SumLoop(_, _, _, _)
SumLoop(h, encrypted_list, i, result) ==
    IF i > Len(encrypted_list) THEN Returned(h, result)
    ELSE LET r == add_encrypted(h, result, encrypted_list[i])
         IN  SumLoop(r.heap, encrypted_list, i + 1, r.ret)

\* calculate_encrypted_sum returning a zero ciphertext for the empty list
calculate_encrypted_sum_default(h, encrypted_list) ==
    IF encrypted_list = <<>> THEN Returned(NewCiphertext(h), Len(h) + 1)
    ELSE SumLoop(h, encrypted_list, 2, encrypted_list[1])

calculate_encrypted_sum(h, encrypted_list) ==
    IF encrypted_list = <<>> THEN Raised(h, "ValueError")
    ELSE SumLoop(h, encrypted_list, 2, encrypted_list[1])

\* calculate_encrypted_average dividing by the count before it sums
calculate_encrypted_average_divfirst(h, encrypted_list) ==
    LET count == Len(encrypted_list)
    IN  IF count = 0 THEN Raised(h, "ZeroDivisionError")
        ELSE LET total_sum == calculate_encrypted_sum(h, encrypted_list)
             IN  multiply_by_constant(total_sum.heap, total_sum.ret, Rat(1, count))

\* 1.0 / count raises ZeroDivisionError for count 0; the sum is computed first
calculate_encrypted_average(h, encrypted_list) ==
    LET total_sum == calculate_encrypted_sum(h, encrypted_list)
        count == Len(encrypted_list)
    IN  IF total_sum.raised # "" THEN total_sum
        ELSE IF count = 0 THEN Raised(total_sum.heap, "ZeroDivisionError")
        ELSE multiply_by_constant(total_sum.heap, total_sum.ret, Rat(1, count))

\* what is left of the heap when the call returns: the n objects the caller
\* held, and the returned object if it is a new one; the intermediate results
\* of the call are unreachable and freed
Collect(n, r) ==
    IF r.ret > n
    THEN [heap |-> Append(SubSeq(r.heap, 1, n), r.heap[r.ret]), ret |-> n + 1, raised |-> r.raised]
    ELSE [heap |-> SubSeq(r.heap, 1, n), ret |-> r.ret, raised |-> r.raised]
-----------------------------------------------------------------------------
(* Specification SpecArith: as the module's own test does, a caller holds   *)
(* ctxt1 and ctxt2, the encryptions of two vectors of one length, applies   *)
(* homomorphic operations to the ciphertexts it holds and decrypts what an  *)
(* operation returned with size = len(test_data1).                          *)

ArithConstants == {Rat(1, 2), R(3)}

InputPairs ==
    { <<HEVector(b1, n), HEVector(b2, n)>> :
         b1 \in HEBases, b2 \in HEBases, n \in {0, num_slots} }

InitArith ==
    /\ NormIdle /\ LabelIdle /\ EncIdle /\ StoreIdle
    /\ \E pair \in { q \in InputPairs : q[1] = <<>> \/ RLess(q[1][1], q[2][1]) } :
         /\ heap = <<encrypt_data(pair[1]).ctxt, encrypt_data(pair[2]).ctxt>>
         /\ origin = <<[op |-> "encrypt_data", data |-> pair[1]],
                       [op |-> "encrypt_data", data |-> pair[2]]>>
    /\ he_call = None

\* ciphertexts on the heap that an operation (not encrypt_data) made
OpsKept == Cardinality({ i \in 1 .. Len(origin) : origin[i].op # "encrypt_data" })

Lists(n) == UNION { [1 .. l -> 1 .. n] : l \in 0 .. MaxList }

\* the call op(...) with outcome r leaves heap r.heap; before is the heap it found
Called(op, c1, c2, k, list, r) ==
    /\ heap' = r.heap
    /\ origin' = IF Len(r.heap) > Len(heap)
                 THEN Append(origin, [op |-> op, data |-> <<>>, value |-> r.heap[Len(r.heap)]])
                 ELSE origin
    /\ he_call' = Some([op |-> op, data |-> <<>>, ctxt |-> c1, ctxt2 |-> c2,
                        constant |-> k, list |-> list, size |-> None,
                        nheap |-> Len(heap), raised |-> r.raised,
                        ret_ctxt |-> r.ret, ret_list |-> <<>>, before |-> heap])
    /\ UNCHANGED <<normVars, labelVars, encVars, storeVars>>

AddEncrypted ==
    /\ OpsKept < MaxOps
    /\ \E c1 \in 1 .. Len(heap), c2 \in 1 .. Len(heap) :
         Called("add_encrypted", c1, c2, Zero, <<>>,
                Collect(Len(heap), add_encrypted(heap, c1, c2)))

MultiplyEncrypted ==
    /\ OpsKept < MaxOps
    /\ \E c1 \in 1 .. Len(heap), c2 \in 1 .. Len(heap) :
         Called("multiply_encrypted", c1, c2, Zero, <<>>,
                Collect(Len(heap), multiply_encrypted(heap, c1, c2)))

MultiplyByConstant ==
    /\ OpsKept < MaxOps
    /\ \E c \in 1 .. Len(heap), k \in ArithConstants :
         Called("multiply_by_constant", c, 0, k, <<>>,
                Collect(Len(heap), multiply_by_constant(heap, c, k)))

AddConstant ==
    /\ OpsKept < MaxOps
    /\ \E c \in 1 .. Len(heap), k \in ArithConstants :
         Called("add_constant", c, 0, k, <<>>,
                Collect(Len(heap), add_constant(heap, c, k)))

CalculateEncryptedSum ==
    /\ OpsKept < MaxOps
    /\ \E list \in Lists(Len(heap)) :
         Called("calculate_encrypted_sum", 0, 0, Zero, list,
                Collect(Len(heap), calculate_encrypted_sum(heap, list)))

CalculateEncryptedAverage ==
    /\ OpsKept < MaxOps
    /\ \E list \in Lists(Len(heap)) :
         Called("calculate_encrypted_average", 0, 0, Zero, list,
                Collect(Len(heap), calculate_encrypted_average(heap, list)))

\* decrypt_data(result, len(test_data1)) on what the last operation returned
DecryptResult ==
    /\ he_call # None /\ he_call[1].op # "decrypt_data" /\ he_call[1].ret_ctxt # 0
    /\ LET size == Some(Len(origin[1].data))
       IN  he_call' = Some([op |-> "decrypt_data", data |-> <<>>, ctxt |-> he_call[1].ret_ctxt,
                            size |-> size, nheap |-> Len(heap), raised |-> "",
                            ret_ctxt |-> 0,
                            ret_list |-> decrypt_data(heap[he_call[1].ret_ctxt], size),
                            prev |-> he_call[1]])
    /\ UNCHANGED <<heap, origin, normVars, labelVars, encVars, storeVars>>

NextArith ==
    \/ AddEncrypted \/ MultiplyEncrypted \/ MultiplyByConstant \/ AddConstant
    \/ CalculateEncryptedSum \/ CalculateEncryptedAverage \/ DecryptResult

SpecArith == InitArith /\ [][NextArith]_vars
-----------------------------------------------------------------------------
(* Claims about the homomorphic arithmetic.                                 *)

\* the plaintext vector an input ciphertext was encrypted from
InputData(i) == origin[i].data

IsInput(i) == origin[i].op = "encrypt_data"

DecryptedAfter(op) ==
    /\ LastCallIs("decrypt_data")
    /\ he_call[1].prev.op = op

\* C11: for equal-length vectors a and b, decrypting add(encrypt(a),
\* encrypt(b)) with size len(a) gives the list a + b (len(a) values, a[i] + b[i]
\* at position i), and decrypting multiplyConstant(encrypt(a), k) with size
\* len(a) gives the list k * a.
C11_AddAndScaleAreElementwise ==
    /\ (DecryptedAfter("add_encrypted")
          /\ IsInput(he_call[1].prev.ctxt) /\ IsInput(he_call[1].prev.ctxt2))
       => LET a == InputData(he_call[1].prev.ctxt)
              b == InputData(he_call[1].prev.ctxt2)
          IN  he_call[1].ret_list = [i \in 1 .. Len(a) |-> RAdd(a[i], b[i])]
    /\ (DecryptedAfter("multiply_by_constant") /\ IsInput(he_call[1].prev.ctxt))
       => LET a == InputData(he_call[1].prev.ctxt)
              k == he_call[1].prev.constant
          IN  he_call[1].ret_list = [i \in 1 .. Len(a) |-> RMul(k, a[i])]

\* C11 holds for every non-empty a: the size-0 case of decrypt_data is the
\* only one in which the decrypted list differs from a + b, resp. k * a.
C11_HoldsForNonEmptyVectors ==
    InputData(1) # <<>> => C11_AddAndScaleAreElementwise

C11_NonEmptyReached ==
    /\ DecryptedAfter("add_encrypted")
    /\ he_call[1].prev.ctxt = 1 /\ he_call[1].prev.ctxt2 = 2
    /\ InputData(1) = <<Rat(1, 10), Rat(2, 10)>>
    /\ InputData(2) = <<Rat(2, 10), Rat(4, 10)>>
    /\ he_call[1].ret_list = <<Rat(3, 10), Rat(6, 10)>>

\* the value a ciphertext was created with
CreatedValue(i) ==
    IF IsInput(i) THEN encrypt_data(origin[i].data).ctxt ELSE origin[i].value

PairwiseOps ==
    {"add_encrypted", "multiply_encrypted", "multiply_by_constant", "add_constant"}

AllOps == PairwiseOps \cup {"calculate_encrypted_sum", "calculate_encrypted_average"}

\* C12: no operation changes a ciphertext it was given: every ciphertext on
\* the heap still holds the value it was created with, each call leaves the
\* ciphertexts it found as they were, and add, multiply, addConstant and
\* multiplyConstant return a new ciphertext, distinct from their inputs.
C12_InputsUnchangedResultNew ==
    /\ \A i \in 1 .. Len(heap) : heap[i] = CreatedValue(i)
    /\ (he_call # None /\ he_call[1].op \in AllOps)
       => /\ Len(heap) >= he_call[1].nheap
          /\ SubSeq(heap, 1, he_call[1].nheap) = he_call[1].before
    /\ (he_call # None /\ he_call[1].op \in PairwiseOps)
       => /\ he_call[1].ret_ctxt = he_call[1].nheap + 1
          /\ Len(heap) = he_call[1].nheap + 1
          /\ he_call[1].ret_ctxt \notin {he_call[1].ctxt, he_call[1].ctxt2}

C12_Witness ==
    /\ LastCallIs("add_encrypted")
    /\ he_call[1].ctxt = 1 /\ he_call[1].ctxt2 = 1
    /\ he_call[1].ret_ctxt = 3
    /\ Len(InputData(1)) = 2
    /\ heap[3] # heap[1]
    /\ heap[1] = he_call[1].before[1]

RECURSIVE SlotSum(_, _, _)
\* the sum of slot s over the ciphertexts h[list[1]], ..., h[list[Len(list)]]
SlotSum(h, list, s) ==
    IF list = <<>> THEN CZero
    ELSE CAdd(h[Head(list)][s], SlotSum(h, Tail(list), s))

CScale(x, q) == [re |-> RMul(x.re, q), im |-> RMul(x.im, q)]

\* C13: sum of a non-empty list returns a ciphertext whose every slot is the
\* sum of that slot over all the inputs (so it decrypts to the elementwise
\* sum), the inputs left as they were; sum of an empty list raises ValueError
\* and returns no ciphertext.
C13_SumFoldsOrRejectsEmpty ==
    /\ LastCallIs("calculate_encrypted_sum")
       => LET c == he_call[1]
          IN  IF c.list = <<>>
              THEN c.raised = "ValueError" /\ c.ret_ctxt = 0 /\ heap = c.before
              ELSE /\ c.raised = ""
                   /\ c.ret_ctxt \in 1 .. Len(heap)
                   /\ heap[c.ret_ctxt]
                        = [s \in 1 .. num_slots |-> SlotSum(c.before, c.list, s)]
    /\ (DecryptedAfter("calculate_encrypted_sum")
          /\ \A j \in 1 .. Len(he_call[1].prev.list) : IsInput(he_call[1].prev.list[j]))
       => LET c == he_call[1].prev
          IN  \A i \in 1 .. Len(InputData(1)) :
                 he_call[1].ret_list[i] = SlotSum(c.before, c.list, i).re

C13_Witness ==
    /\ DecryptedAfter("calculate_encrypted_sum")
    /\ he_call[1].prev.list = <<2, 1>>
    /\ InputData(1) = <<Rat(1, 10), Rat(2, 10)>>
    /\ InputData(2) = <<Rat(2, 10), Rat(4, 10)>>
    /\ he_call[1].ret_list = <<Rat(3, 10), Rat(6, 10)>>

C13_WitnessEmpty ==
    /\ LastCallIs("calculate_encrypted_sum")
    /\ he_call[1].list = <<>>
    /\ he_call[1].raised = "ValueError"

\* C14: average of a non-empty list is multiplyConstant(sum(list),
\* 1/len(list)): every slot of the returned ciphertext is the slot's sum over
\* the inputs times 1/len(list); average of an empty list raises the
\* ValueError of sum, never a division by zero.
C14_AverageIsScaledSum ==
    LastCallIs("calculate_encrypted_average")
       => LET c == he_call[1]
          IN  IF c.list = <<>>
              THEN c.raised = "ValueError" /\ c.ret_ctxt = 0 /\ heap = c.before
              ELSE /\ c.raised = ""
                   /\ c.ret_ctxt \in 1 .. Len(heap)
                   /\ heap[c.ret_ctxt]
                        = [s \in 1 .. num_slots |->
                             CScale(SlotSum(c.before, c.list, s), Rat(1, Len(c.list)))]
                   /\ LET total == calculate_encrypted_sum(c.before, c.list)
                          scaled == multiply_by_constant(total.heap, total.ret,
                                                         Rat(1, Len(c.list)))
                      IN  heap[c.ret_ctxt] = scaled.heap[scaled.ret]

C14_Witness ==
    /\ LastCallIs("calculate_encrypted_average")
    /\ he_call[1].list = <<1, 2>>
    /\ InputData(1) = <<Rat(1, 10), Rat(2, 10)>>
    /\ InputData(2) = <<Rat(2, 10), Rat(4, 10)>>
    /\ heap[he_call[1].ret_ctxt][2].re = Rat(3, 10)

C14_WitnessEmpty ==
    /\ LastCallIs("calculate_encrypted_average")
    /\ he_call[1].list = <<>>
    /\ he_call[1].raised = "ValueError"
\* the orders in which the contributions of list can be folded
Orderings(list) ==
    { [i \in 1 .. Len(list) |-> list[p[i]]] :
        p \in { q \in [1 .. Len(list) -> 1 .. Len(list)] :
                  \A i, j \in 1 .. Len(list) : q[i] = q[j] => i = j } }

\* C15: folding the same contributions in any order gives the same count (the
\* number of contributions folded) and a sum that decrypts to the same values.
C15_FoldIsOrderIndependent ==
    (LastCallIs("calculate_encrypted_sum") /\ he_call[1].list # <<>>)
       => LET c == he_call[1]
          IN  \A other \in Orderings(c.list) :
                 LET r == calculate_encrypted_sum(c.before, other)
                 IN  /\ Len(other) = Len(c.list)
                     /\ r.raised = ""
                     /\ decrypt_data(r.heap[r.ret], None)
                          = decrypt_data(heap[c.ret_ctxt], None)

C15_Witness ==
    /\ LastCallIs("calculate_encrypted_sum")
    /\ he_call[1].list = <<1, 2>>
    /\ <<2, 1>> \in Orderings(he_call[1].list)
    /\ heap[1] # heap[2]
    /\ decrypt_data(heap[he_call[1].ret_ctxt], None) = <<Rat(3, 10), Rat(6, 10)>>
-----------------------------------------------------------------------------
(* HEEngine.encrypt_revenue_data: the per-field ciphertexts of one record.   *)

revenue_numeric_fields == <<"revenue", "danceability", "energy", "valence", "tempo">>

\* tempo is encrypted as it is given
revenue_normalized_raw_tempo(field, value) ==
    IF field = "revenue" THEN PyMin(RDiv(value, R(100000000)), One)
    ELSE value

\* the value encrypt_revenue_data puts into the ciphertext of field
revenue_normalized(field, value) ==
    IF field = "revenue" THEN PyMin(RDiv(value, R(100000000)), One)
    ELSE IF field = "tempo" THEN RDiv(RSub(value, R(60)), R(140))
    ELSE value

encrypt_revenue_data(revenue_data) ==
    [field \in Range(revenue_numeric_fields) \cap DOMAIN revenue_data |->
        encrypt_data(<<revenue_normalized(field, revenue_data[field])>>).ctxt]

-----------------------------------------------------------------------------
(* The aggregation store (core/privacy_calculator.py,                       *)
(* PrivacyPreservingCalculator), whose callers are the GUI handlers.  An    *)
(* accumulator is [sums, count]: one running encrypted sum per tracked      *)
(* field and a cleartext count; accumulators is a function from the         *)
(* categories that have one, metadata_table a function from artist ids.     *)
(* folded records, per category, the raw records folded into it, in order   *)
(* (it is not state of the program).                                        *)

\* the other entries are dropped
Put_only(f, k, v) == [x \in {k} |-> v]

\* a function with one more (or one replaced) entry
Put(f, k, v) == [x \in DOMAIN f \cup {k} |-> IF x = k THEN v ELSE f[x]]

\* addRecord's validation: declared ranges and enumerated label sets
validate_record(raw) ==
    /\ \A f \in Range(numeric_fields) \cap DOMAIN raw :
         RLeq(MinOf(f), raw[f]) /\ RLeq(raw[f], MaxOf(f))
    /\ raw["genre"] \in DOMAIN genre_mapping
    /\ raw["period"] \in DOMAIN period_mapping

\* the accumulator a record is folded into
accumulator_key(raw) == raw["genre"]

\* the engine's add, applied to two ciphertexts
AddCiphertexts(x, y) ==
    LET r == add_encrypted(<<x, y>>, 1, 2) IN r.heap[r.ret]

\* only the revenue sum receives the contribution
fold_record_revenue_only(accs, key, enc) ==
    IF key \in DOMAIN accs
    THEN [sums |-> [f \in DOMAIN enc |->
                      IF f = "revenue" THEN AddCiphertexts(accs[key].sums[f], enc[f])
                      ELSE accs[key].sums[f]],
          count |-> accs[key].count + 1]
    ELSE [sums |-> enc, count |-> 1]

\* the accumulator of key after one more contribution: every tracked field's
\* sum has the new ciphertext added, the count is one more
fold_record(accs, key, enc) ==
    IF key \in DOMAIN accs
    THEN [sums |-> [f \in DOMAIN enc |-> AddCiphertexts(accs[key].sums[f], enc[f])],
          count |-> accs[key].count + 1]
    ELSE [sums |-> enc, count |-> 1]

record_metadata(raw) ==
    [artist_id |-> raw["artist_id"], genre |-> raw["genre"], period |-> raw["period"]]

\* the lock of every accumulator is taken
may_acquire_unguarded(held, key) == TRUE

\* exclusive access to one accumulator
may_acquire(held, key) == key \notin held

\* revenue is scaled by value / 1e8
denormalize_revenue(x) == RMul(x, R(100000000))

\* the decrypted average revenue of one accumulator
category_average(acc) ==
    denormalize_revenue(RDiv(decrypt_data(acc.sums["revenue"], Some(1))[1], R(acc.count)))

\* the totals, not divided by the counts
calculate_all_genre_averages_total(accs) ==
    [k \in { c \in DOMAIN accs : accs[c].count > 0 } |->
        denormalize_revenue(decrypt_data(accs[k].sums["revenue"], Some(1))[1])]

calculate_all_genre_averages(accs) ==
    [k \in { c \in DOMAIN accs : accs[c].count > 0 } |-> category_average(accs[k])]

performance_label(ratio) ==
    IF RLeq(Rat(3, 2), ratio) THEN "excellent"
    ELSE IF RLeq(One, ratio) THEN "good"
    ELSE IF RLeq(Rat(7, 10), ratio) THEN "average"
    ELSE "needs-improvement"

position_label(ratio) == IF RLeq(One, ratio) THEN "above-average" ELSE "below-average"

ComparisonSuccess(accs, value, category) ==
    LET average == category_average(accs[category])
    IN  IF average = Zero
        THEN [status |-> "raised", message |-> "ZeroDivisionError", decrypted |-> {category}]
        ELSE LET ratio == RDiv(value, average)
             IN  [status |-> "success", my_revenue |-> value, genre |-> category,
                  genre_average |-> average, ratio |-> ratio,
                  position |-> position_label(ratio),
                  performance |-> performance_label(ratio),
                  sample_count |-> accs[category].count,
                  decrypted |-> {category}]

\* the accumulator is looked up without the check for its absence
compare_with_market_unchecked(accs, value, category, period) ==
    IF category \in DOMAIN accs
    THEN ComparisonSuccess(accs, value, category)
    ELSE [status |-> "raised", message |-> "KeyError", decrypted |-> {}]

\* decrypted: the accumulators whose sums the call decrypted
compare_with_market(accs, value, category, period) ==
    IF category \notin DOMAIN accs \/ accs[category].count = 0
    THEN [status |-> "insufficient-data", message |-> "no data for the category",
          decrypted |-> {}]
    ELSE ComparisonSuccess(accs, value, category)
-----------------------------------------------------------------------------
(* The GUI handlers (gui/main_window.py) and the store calls they make, one  *)
(* daemon thread per request.  Queries do not change the store, so a        *)
(* behaviour makes one query, after the contributions it looks at: nothing  *)
(* proceeds once a query has been answered.                                 *)

range_fields ==
    <<"danceability", "energy", "valence", "acousticness", "instrumentalness",
      "liveness", "speechiness">>

\* validate_input_data: the data of the form, or None after an error dialog
validate_input_data(form) ==
    IF form["artist_id"] = "" THEN None
    ELSE IF \E f \in Range(range_fields) :
               ~(RLeq(Zero, form[f]) /\ RLeq(form[f], One)) THEN None
    ELSE IF RLess(form["revenue"], Zero) THEN None
    ELSE IF RLess(form["song_count"], One) THEN None
    ELSE IF ~(RLeq(R(60), form["tempo"]) /\ RLeq(form["tempo"], R(200))) THEN None
    ELSE Some(form)

Form(artist_id, genre, revenue) ==
    [test_music_data EXCEPT !["artist_id"] = artist_id, !["genre"] = genre,
                            !["revenue"] = revenue]

\* what the user has typed into the form when a button is pressed; genre and
\* period come from read-only lists of the table labels
FormInputs ==
    { Form("artist_001", "Pop", R(8500000)),
      Form("artist_002", "Pop", R(12300000)),
      [Form("artist_003", "Jazz", R(8500000)) EXCEPT !["song_count"] = R(60)],
      Form("", "Pop", R(8500000)) }

\* the i-th record generate_sample_data synthesizes
SampleRecord(i) ==
    Form(IF i % 2 = 1 THEN "sample_odd" ELSE "sample_even",
         IF i % 2 = 1 THEN "Pop" ELSE "Rock",
         R(10000000 * i))

InitStore ==
    /\ NormIdle /\ LabelIdle /\ EncIdle /\ HEIdle
    /\ calculator = None /\ init_pc = "running"
    /\ accumulators = <<>> /\ metadata_table = <<>> /\ locks = {} /\ folded = <<>>
    /\ threads = [t \in Threads |-> IdleThread]
    /\ submitted = 0 /\ query = None /\ shown = None

StoreFrame == UNCHANGED <<normVars, labelVars, encVars, heVars>>

\* the reference is assigned although the construction failed
InitTask_assigned_on_failure ==
    /\ init_pc = "running"
    /\ calculator' = Some("PrivacyPreservingCalculator")
    /\ \/ init_pc' = "done" /\ shown' = Some("ready")
       \/ init_pc' = "failed" /\ shown' = Some("init error")
    /\ UNCHANGED <<accumulators, metadata_table, locks, folded, threads, submitted, query>>
    /\ StoreFrame

\* init_task: self.calculator = PrivacyPreservingCalculator(), or the error dialog
InitTask ==
    /\ init_pc = "running"
    /\ \/ calculator' = Some("PrivacyPreservingCalculator") /\ init_pc' = "done"
          /\ shown' = Some("ready")
       \/ calculator' = calculator /\ init_pc' = "failed"
          /\ shown' = Some("init error")
    /\ UNCHANGED <<accumulators, metadata_table, locks, folded, threads, submitted, query>>
    /\ StoreFrame

Refused ==
    /\ shown' = Some("warning: not initialized")
    /\ UNCHANGED <<calculator, init_pc, accumulators, metadata_table, locks, folded,
                   threads, submitted, query>>

\* add_artist_data: the handler up to thread.start()
AddArtistData(t) ==
    /\ query = None /\ threads[t].pc = "idle" /\ submitted < MaxRecords
    /\ \E form \in FormInputs :
         IF calculator = None THEN Refused
         ELSE LET data == validate_input_data(form)
              IN  IF data = None
                  THEN /\ shown' = Some("input error")
                       /\ UNCHANGED <<threads, submitted>>
                  ELSE /\ threads' = [threads EXCEPT ![t] =
                            [pc |-> "call", task |-> "add", queue |-> <<data[1]>>,
                             staged |-> None, ret |-> None]]
                       /\ submitted' = submitted + 1
                       /\ shown' = shown
    /\ calculator # None =>
         UNCHANGED <<calculator, init_pc, accumulators, metadata_table, locks, folded, query>>
    /\ StoreFrame

\* generate_sample_data: the handler up to thread.start()
GenerateSampleData(t) ==
    /\ query = None /\ threads[t].pc = "idle" /\ submitted + SampleCount <= MaxRecords
    /\ IF calculator = None THEN Refused
       ELSE /\ threads' = [threads EXCEPT ![t] =
                 [pc |-> "call", task |-> "generate",
                  queue |-> [i \in 1 .. SampleCount |-> SampleRecord(i)],
                  staged |-> None, ret |-> None]]
            /\ submitted' = submitted + SampleCount
            /\ UNCHANGED <<calculator, init_pc, accumulators, metadata_table, locks,
                           folded, query, shown>>
    /\ StoreFrame

\* the request of thread t is over: the next record of the batch, or the end
\* of the thread with the handler's message
Returned_(t, ok) ==
    LET rest == Tail(threads[t].queue)
    IN  IF rest # <<>>
        THEN /\ threads' = [threads EXCEPT ![t] =
                  [pc |-> "call", task |-> threads[t].task, queue |-> rest,
                   staged |-> None, ret |-> Some(ok)]]
             /\ shown' = shown
        ELSE /\ threads' = [threads EXCEPT ![t] =
                  [pc |-> "idle", task |-> "", queue |-> <<>>,
                   staged |-> None, ret |-> Some(ok)]]
             /\ shown' = Some(IF threads[t].task = "generate" THEN "samples generated"
                              ELSE IF ok THEN "data added" ELSE "add failed")

\* addRecord: validate, encode and encrypt the record
ValidateAndEncrypt(t) ==
    /\ query = None /\ threads[t].pc = "call"
    /\ LET raw == Head(threads[t].queue)
       IN  IF validate_record(raw)
           THEN /\ threads' = [threads EXCEPT ![t].pc = "encrypted",
                                              ![t].staged = Some(encrypt_revenue_data(raw))]
                /\ shown' = shown
           ELSE Returned_(t, FALSE)
    /\ UNCHANGED <<calculator, init_pc, accumulators, metadata_table, locks, folded,
                   submitted, query>>
    /\ StoreFrame

\* addRecord: exclusive access to the accumulator the record goes to
Acquire(t) ==
    /\ query = None /\ threads[t].pc = "encrypted"
    /\ may_acquire(locks, accumulator_key(Head(threads[t].queue)))
    /\ locks' = locks \cup {accumulator_key(Head(threads[t].queue))}
    /\ threads' = [threads EXCEPT ![t].pc = "locked"]
    /\ UNCHANGED <<calculator, init_pc, accumulators, metadata_table, folded, submitted,
                   query, shown>>
    /\ StoreFrame

\* addRecord: read the accumulator and add the record's ciphertexts to its
\* sums; a failure of the engine ends the call with nothing written
Fold(t) ==
    /\ query = None /\ threads[t].pc = "locked"
    /\ LET key == accumulator_key(Head(threads[t].queue))
       IN  \/ /\ threads' = [threads EXCEPT ![t].pc = "folded",
                    ![t].staged = Some(fold_record(accumulators, key, threads[t].staged[1]))]
              /\ UNCHANGED <<locks, shown>>
           \/ /\ locks' = locks \ {key}
              /\ Returned_(t, FALSE)
    /\ UNCHANGED <<calculator, init_pc, accumulators, metadata_table, folded, submitted,
                   query>>
    /\ StoreFrame

\* addRecord: write the sums and the count, store the metadata, give up the
\* exclusive access and return success
Commit(t) ==
    /\ query = None /\ threads[t].pc = "folded"
    /\ LET raw == Head(threads[t].queue)
           key == accumulator_key(raw)
       IN  /\ accumulators' = Put(accumulators, key, threads[t].staged[1])
           /\ metadata_table' = Put(metadata_table, raw["artist_id"], record_metadata(raw))
           /\ folded' = Put(folded, key,
                            Append(IF key \in DOMAIN folded THEN folded[key] ELSE <<>>, raw))
           /\ locks' = locks \ {key}
    /\ Returned_(t, TRUE)
    /\ UNCHANGED <<calculator, init_pc, submitted, query>>
    /\ StoreFrame

\* analyze_genre_trends and its analyze_task
AnalyzeGenreTrends ==
    /\ query = None
    /\ IF calculator = None THEN Refused
       ELSE LET results == calculate_all_genre_averages(accumulators)
                display == IF DOMAIN results # {} THEN "averages" ELSE "not enough data"
            IN  /\ query' = Some([op |-> "calculate_all_genre_averages", args |-> <<>>,
                                  result |-> results, decrypted |-> DOMAIN results,
                                  display |-> display])
                /\ shown' = Some(display)
                /\ UNCHANGED <<calculator, init_pc, accumulators, metadata_table, locks,
                               folded, threads, submitted>>
    /\ StoreFrame

\* compare_with_market and its compare_task
CompareWithMarket ==
    /\ query = None
    /\ \E form \in FormInputs :
         IF calculator = None THEN Refused
         ELSE LET data == validate_input_data(form)
              IN  IF data = None
                  THEN /\ shown' = Some("input error")
                       /\ query' = query
                  ELSE LET result == compare_with_market(accumulators, data[1]["revenue"],
                                        data[1]["genre"], data[1]["period"])
                           display == IF result.status = "raised" THEN "compare error"
                                      ELSE IF result.status = "success" THEN "comparison"
                                      ELSE "compare failed: message"
                       IN  /\ query' = Some([op |-> "compare_with_market",
                                             args |-> <<data[1]["revenue"], data[1]["genre"],
                                                        data[1]["period"]>>,
                                             result |-> result,
                                             decrypted |-> result.decrypted,
                                             display |-> display])
                           /\ shown' = Some(display)
    /\ calculator # None =>
         UNCHANGED <<calculator, init_pc, accumulators, metadata_table, locks, folded,
                     threads, submitted>>
    /\ StoreFrame

\* the thread a new request starts
NewThread == CHOOSE t \in Threads : threads[t].pc = "idle" /\ (t = "t1" \/ threads["t1"].pc # "idle")

\* the cleartext counts: never a decrypted statistic
get_privacy_report(accs, meta) ==
    [total_artists |-> Cardinality(DOMAIN meta),
     genre_distribution |-> [k \in DOMAIN accs |-> accs[k].count],
     privacy_level |-> "high", encryption_method |-> "CKKS",
     data_processing |-> "homomorphic"]

\* show_privacy_report: runs in the GUI thread
ShowPrivacyReport ==
    /\ query = None
    /\ IF calculator = None THEN Refused
       ELSE /\ query' = Some([op |-> "get_privacy_report", args |-> <<>>,
                              result |-> get_privacy_report(accumulators, metadata_table),
                              decrypted |-> {}, display |-> "privacy report"])
            /\ shown' = Some("privacy report")
            /\ UNCHANGED <<calculator, init_pc, accumulators, metadata_table, locks,
                           folded, threads, submitted>>
    /\ StoreFrame

NextStore ==
    \/ InitTask
    \/ (\E t \in Threads : threads[t].pc = "idle") /\ AddArtistData(NewThread)
    \/ (\E t \in Threads : threads[t].pc = "idle") /\ GenerateSampleData(NewThread)
    \/ \E t \in Threads : ValidateAndEncrypt(t)
    \/ \E t \in Threads : Acquire(t)
    \/ \E t \in Threads : Fold(t)
    \/ \E t \in Threads : Commit(t)
    \/ AnalyzeGenreTrends
    \/ CompareWithMarket
    \/ ShowPrivacyReport

SpecStore == InitStore /\ [][NextStore]_vars
-----------------------------------------------------------------------------
(* Claims about the aggregation store.                                      *)

\* thread t returns from addRecord in this step
ReturnsFrom(t) == Len(threads'[t].queue) < Len(threads[t].queue)

\* the store after the record raw has been applied to it in full
Applied(raw) ==
    LET key == accumulator_key(raw)
        enc == encrypt_revenue_data(raw)
        fresh == key \notin DOMAIN accumulators
    IN  /\ DOMAIN enc = Range(revenue_numeric_fields)
        /\ DOMAIN accumulators' = DOMAIN accumulators \cup {key}
        /\ \A k \in DOMAIN accumulators \ {key} : accumulators'[k] = accumulators[k]
        /\ DOMAIN accumulators'[key].sums = DOMAIN enc
        /\ \A f \in DOMAIN enc :
             accumulators'[key].sums[f]
               = IF fresh THEN enc[f] ELSE AddCiphertexts(accumulators[key].sums[f], enc[f])
        /\ accumulators'[key].count = (IF fresh THEN 0 ELSE accumulators[key].count) + 1
        /\ DOMAIN metadata_table' = DOMAIN metadata_table \cup {raw["artist_id"]}
        /\ metadata_table'[raw["artist_id"]] = record_metadata(raw)
        /\ \A a \in DOMAIN metadata_table \ {raw["artist_id"]} :
             metadata_table'[a] = metadata_table[a]

\* C16: addRecord is all-or-nothing. A step changes an accumulator or the
\* metadata table only if it is the step by which some addRecord returns
\* success, and that step adds the record's ciphertext to the sum of every
\* tracked field of its accumulator, increments that count by exactly one and
\* stores the metadata; the step by which an addRecord returns failure, and
\* every other step of any call, leaves all sums, counts and the metadata
\* table as they were.
C16_AddRecordAllOrNothing ==
    [][ /\ \A t \in Threads :
             ReturnsFrom(t) =>
                IF threads'[t].ret = Some(TRUE)
                THEN Applied(Head(threads[t].queue))
                ELSE accumulators' = accumulators /\ metadata_table' = metadata_table
        /\ (accumulators' # accumulators \/ metadata_table' # metadata_table)
             => \E t \in Threads : ReturnsFrom(t) /\ threads'[t].ret = Some(TRUE)
      ]_vars

C16_Witness ==
    /\ \E t \in Threads : threads[t].ret = Some(FALSE)
    /\ "Pop" \in DOMAIN accumulators
    /\ accumulators["Pop"].count = 2
    /\ DOMAIN metadata_table = {"artist_001", "artist_002"}

RECURSIVE Contributed(_, _)
\* the sum of the values encrypted for field over the records
Contributed(records, field) ==
    IF records = <<>> THEN Zero
    ELSE RAdd(revenue_normalized(field, Head(records)[field]),
              Contributed(Tail(records), field))

Holding(t) == threads[t].pc \in {"locked", "folded"}

\* C17: no contribution is lost under any interleaving of the worker
\* threads: each accumulator's count is the number of addRecord calls that
\* returned success for its category and each of its sums decrypts to the sum
\* of their contributions; two threads never hold the same accumulator at
\* once; and a thread waiting for an accumulator that no thread holds can
\* proceed whatever other accumulators are held.
C17_NoLostUpdate ==
    /\ DOMAIN accumulators = DOMAIN folded
    /\ \A key \in DOMAIN accumulators :
         /\ accumulators[key].count = Len(folded[key])
         /\ \A f \in DOMAIN accumulators[key].sums :
              decrypt_data(accumulators[key].sums[f], Some(1))
                = <<Contributed(folded[key], f)>>
    /\ \A t, u \in Threads :
         (t # u /\ Holding(t) /\ Holding(u))
            => accumulator_key(Head(threads[t].queue))
                 # accumulator_key(Head(threads[u].queue))
    /\ \A t \in Threads :
         (/\ threads[t].pc = "encrypted" /\ query = None
          /\ \A u \in Threads \ {t} :
               Holding(u) => accumulator_key(Head(threads[u].queue))
                               # accumulator_key(Head(threads[t].queue)))
            => ENABLED Acquire(t)

C17_Witness ==
    /\ threads["t1"].pc = "folded" /\ threads["t2"].pc = "encrypted"
    /\ accumulator_key(Head(threads["t1"].queue)) = "Pop"
    /\ accumulator_key(Head(threads["t2"].queue)) = "Pop"
    /\ "Pop" \in DOMAIN accumulators

C17_WitnessParallel ==
    /\ Holding("t1") /\ Holding("t2")
    /\ locks = {"Pop", "Rock"}

LastQueryIs(op) == query # None /\ query[1].op = op

\* C18: compare_with_market on a category that has no accumulator, or one
\* with count 0, returns status insufficient-data with a message, decrypts
\* nothing, computes no ratio and raises nothing; the GUI tells it from a
\* success by the status alone.
C18_InsufficientDataIsAResult ==
    (/\ LastQueryIs("compare_with_market")
     /\ \/ query[1].args[2] \notin DOMAIN accumulators
        \/ accumulators[query[1].args[2]].count = 0)
       => /\ query[1].result.status = "insufficient-data"
          /\ "message" \in DOMAIN query[1].result
          /\ "ratio" \notin DOMAIN query[1].result
          /\ "genre_average" \notin DOMAIN query[1].result
          /\ query[1].decrypted = {}
          /\ query[1].display = "compare failed: message"

C18_Witness ==
    /\ LastQueryIs("compare_with_market")
    /\ query[1].args[2] = "Jazz"
    /\ "Pop" \in DOMAIN accumulators
    /\ query[1].result.status = "insufficient-data"

RECURSIVE Revenues(_)
Revenues(records) ==
    IF records = <<>> THEN Zero ELSE RAdd(Head(records)["revenue"], Revenues(Tail(records)))

\* C19: calculate_all_genre_averages returns an entry for exactly the
\* categories with count > 0, and each entry is the sum of the revenues
\* contributed to the category divided by its count.
C19_AveragesOfContributedRevenues ==
    LastQueryIs("calculate_all_genre_averages")
       => /\ DOMAIN query[1].result
               = { k \in DOMAIN accumulators : accumulators[k].count > 0 }
          /\ \A g \in DOMAIN genre_mapping :
               g \in DOMAIN query[1].result
                  <=> (g \in DOMAIN folded /\ Len(folded[g]) > 0)
          /\ \A k \in DOMAIN query[1].result :
               query[1].result[k] = RDiv(Revenues(folded[k]), R(Len(folded[k])))

C19_Witness ==
    /\ LastQueryIs("calculate_all_genre_averages")
    /\ "Pop" \in DOMAIN folded
    /\ Len(folded["Pop"]) = 2
    /\ folded["Pop"][1]["revenue"] = R(8500000)
    /\ folded["Pop"][2]["revenue"] = R(12300000)
    /\ query[1].result["Pop"] = R(10400000)
    /\ "Rock" \notin DOMAIN query[1].result

\* C20: no query decrypts a single record's contribution: the revenue sum a
\* query decrypts is never the ciphertext of one record folded into it.
C20_OnlyAggregatesDecrypted ==
    query # None
       => \A k \in query[1].decrypted :
             \A i \in 1 .. Len(folded[k]) :
                accumulators[k].sums["revenue"]
                   # encrypt_revenue_data(folded[k][i])["revenue"]
\* C21: the calculator reference is unset while init_task runs and after it
\* failed, and while it is unset no request has been served: no worker thread
\* was started, no record handed to the store, no accumulator, metadata or
\* query result exists, and all the GUI has shown is the warning of a refused
\* request or the initialization error.
C21_NoRequestWithoutCalculator ==
    /\ init_pc \in {"running", "failed"} => calculator = None
    /\ calculator # None => init_pc = "done"
    /\ calculator = None
         => /\ \A t \in Threads : threads[t] = IdleThread
            /\ submitted = 0 /\ query = None
            /\ accumulators = <<>> /\ metadata_table = <<>> /\ folded = <<>> /\ locks = {}
            /\ shown \in {None, Some("warning: not initialized"), Some("init error")}

C21_Witness ==
    /\ init_pc = "failed" /\ calculator = None
    /\ shown = Some("warning: not initialized")
    /\ query = None /\ submitted = 0
\* C22: per accumulator the only transition is absent -> active, made by the
\* step in which an addRecord targeting it returns success (its count is then
\* 1); an addRecord that returns failure and a query create no accumulator;
\* an active accumulator stays active and its count never decreases.
C22_AbsentToActiveOnly ==
    [][ /\ DOMAIN accumulators \subseteq DOMAIN accumulators'
        /\ \A k \in DOMAIN accumulators :
             accumulators'[k].count >= accumulators[k].count
        /\ \A k \in DOMAIN accumulators' \ DOMAIN accumulators :
             /\ accumulators'[k].count = 1
             /\ \E t \in Threads :
                  /\ ReturnsFrom(t) /\ threads'[t].ret = Some(TRUE)
                  /\ accumulator_key(Head(threads[t].queue)) = k
        /\ \A t \in Threads :
             (ReturnsFrom(t) /\ threads'[t].ret = Some(FALSE))
                => DOMAIN accumulators' = DOMAIN accumulators
        /\ query' # query => accumulators' = accumulators
      ]_vars

C22_Witness ==
    /\ DOMAIN accumulators = {"Pop", "Rock"}
    /\ accumulators["Pop"].count = 1 /\ accumulators["Rock"].count = 1
    /\ \E t \in Threads : threads[t].ret = Some(FALSE)
    /\ query # None
\* C23: every record the GUI hands to the store lies within the declared
\* ranges and carries table labels; a record outside them is rejected by the
\* handler, before a worker thread calls the store.
C23_OnlyValidRecordsReachTheStore ==
    \A t \in Threads :
       (threads[t].task = "add" /\ threads[t].queue # <<>>)
          => validate_record(Head(threads[t].queue))
-----------------------------------------------------------------------------
(* Specification SpecRevenue: one value of one field that                   *)
(* encrypt_revenue_data encrypts goes through both normalization paths:     *)
(* MusicDataEncoder.normalize_value, and HEEngine.encrypt_revenue_data      *)
(* followed by the decryption of the field's ciphertext.                    *)

InitRevenue ==
    /\ nField \in Range(revenue_numeric_fields)
    /\ nValue \in TestValues(nField)
    /\ nNorm = None /\ nDenorm = None
    /\ LabelIdle /\ EncIdle /\ HEIdle /\ StoreIdle

\* encrypt_revenue_data({nField: nValue})
EncryptRevenueData ==
    /\ he_call = None
    /\ LET revenue_data == [f \in {nField} |-> nValue]
           encrypted_data == encrypt_revenue_data(revenue_data)
       IN  /\ heap' = <<encrypted_data[nField]>>
           /\ origin' = <<[op |-> "encrypt_revenue_data", data |-> revenue_data]>>
           /\ he_call' = Some([op |-> "encrypt_revenue_data", data |-> revenue_data,
                               fields |-> DOMAIN encrypted_data, ctxt |-> 1,
                               ret_list |-> <<>>])
    /\ UNCHANGED <<normVars, labelVars, encVars, storeVars>>

\* decrypt_data(encrypted_data[nField], 1): the plaintext that was encrypted
DecryptRevenue ==
    /\ LastCallIs("encrypt_revenue_data")
    /\ he_call' = Some([op |-> "decrypt_data", data |-> he_call[1].data,
                        fields |-> he_call[1].fields, ctxt |-> 1,
                        ret_list |-> decrypt_data(heap[1], Some(1))])
    /\ UNCHANGED <<heap, origin, normVars, labelVars, encVars, storeVars>>

NextRevenue == NormalizeValue \/ EncryptRevenueData \/ DecryptRevenue

SpecRevenue == InitRevenue /\ [][NextRevenue]_vars

InDeclaredRange(value, field) ==
    RLeq(MinOf(field), value) /\ RLeq(value, MaxOf(field))

BothPathsTaken == LastCallIs("decrypt_data") /\ nNorm # None

====
